---- MODULE Spec2Model ----
(***************************************************************************)
(* Model of script.py: the resolution pipeline of main() (site strategies, *)
(* live capture, HTML-scan fallback), the download executor                *)
(* download_requests_targets, and the filename resolver                    *)
(* safe_filename / save_bytes / unique_path.                               *)
(*                                                                         *)
(* Strings are sequences of characters.  A character is a one-element      *)
(* string, or a symbolic name for a character that cannot be written in a  *)
(* TLA+ string: "SP" space, "TAB" \t, "LF" \n, "CR" \r, "SOH" \x01,         *)
(* "NUL" \x00, "US" \x1f, "BSLASH" \, "DQUOTE" ", "REPL" U+FFFD, ...        *)
(***************************************************************************)
EXTENDS Integers, Sequences, FiniteSets, TLC

(***************************************************************************)
(* Program constants                                                       *)
(***************************************************************************)
MAX_DOWNLOADS == 100

SCROLL_STEPS == 0

EXTS == << <<".", "w", "e", "b", "p">>, <<".", "g", "i", "f">>, <<".", "w", "e", "b", "m">> >>

(***************************************************************************)
(* Bounds of the model                                                     *)
(***************************************************************************)
\* longest raw name explored by the filename specification
MaxNameLen == 3

\* download lists longer than this are explored with every fetch succeeding
\* or every fetch failing; shorter ones with every outcome at every fetch
RichLen == 2

\* number of response events of one capture session whose fields vary freely
MaxEvents == 2

(***************************************************************************)
(* Sequence helpers                                                        *)
(***************************************************************************)
\* F(e) with e evaluated once: inside ENABLED and primed expressions TLC
\* evaluates an operator argument again at every use
Once(e, F(_)) == CHOOSE r \in {F(x) : x \in {e}} : TRUE

Min(a, b) == IF a < b THEN a ELSE b

Max(a, b) == IF a > b THEN a ELSE b

Range(s) == {s[k] : k \in 1..Len(s)}

EndsWith(s, suf) ==
    /\ Len(suf) <= Len(s)
    /\ SubSeq(s, Len(s) - Len(suf) + 1, Len(s)) = suf

StartsWith(s, pre) ==
    /\ Len(pre) <= Len(s)
    /\ SubSeq(s, 1, Len(pre)) = pre

LowerAlpha == <<"a", "b", "c", "d", "e", "f", "g", "h", "i", "j", "k", "l", "m",
               "n", "o", "p", "q", "r", "s", "t", "u", "v", "w", "x", "y", "z">>

UpperAlpha == <<"A", "B", "C", "D", "E", "F", "G", "H", "I", "J", "K", "L", "M",
               "N", "O", "P", "Q", "R", "S", "T", "U", "V", "W", "X", "Y", "Z">>

LowerChar(ch) ==
    Once(ch, LAMBDA c : IF \E k \in 1..26 : UpperAlpha[k] = c
                        THEN LowerAlpha[CHOOSE k \in 1..26 : UpperAlpha[k] = c] ELSE c)

UpperChar(ch) ==
    Once(ch, LAMBDA c : IF \E k \in 1..26 : LowerAlpha[k] = c
                        THEN UpperAlpha[CHOOSE k \in 1..26 : LowerAlpha[k] = c] ELSE c)

\* str.lower()
Lower(str) == Once(str, LAMBDA s : [k \in 1..Len(s) |-> LowerChar(s[k])])

\* str.upper()
Upper(s) == [k \in 1..Len(s) |-> UpperChar(s[k])]

DigitChar == <<"0", "1", "2", "3", "4", "5", "6", "7", "8", "9">>

RECURSIVE Str(_)
\* str(n) for a natural number n
Str(n) == IF n < 10 THEN <<DigitChar[n + 1]>>
          ELSE Str(n \div 10) \o <<DigitChar[(n % 10) + 1]>>

(***************************************************************************)
(* Character classes                                                       *)
(***************************************************************************)
\* characters str.strip() removes at both ends (str.isspace)
Whitespace == {"SP", "TAB", "LF", "CR", "VT", "FF", "FS", "GS", "RS", "US"}

\* the character class of the regular expression in safe_filename
ReClass == {"BSLASH", "/", ":", "*", "?", "DQUOTE", "<", ">", "|", "LF", "CR", "TAB"}

\* path separators (POSIX and Windows)
PathSeps == {"/", "BSLASH"}

\* C0 control characters and DEL
ControlChars == {"NUL", "SOH", "STX", "TAB", "LF", "VT", "FF", "CR", "SI", "DLE",
                 "DC1", "DC2", "FS", "GS", "RS", "US", "DEL"}

\* the hexadecimal digits that follow "%" in the names the model explores
HexDigits == {"0", "1", "2", "F"}

\* chr(int(xy, 16)) for the percent escapes %xy over HexDigits; a byte >= 0x80
\* that is not valid UTF-8 decodes to U+FFFD (errors="replace")
PctDecode(x, y) ==
    CASE x = "0" /\ y = "0" -> "NUL"
      [] x = "0" /\ y = "1" -> "SOH"
      [] x = "0" /\ y = "2" -> "STX"
      [] x = "0" /\ y = "F" -> "SI"
      [] x = "1" /\ y = "0" -> "DLE"
      [] x = "1" /\ y = "1" -> "DC1"
      [] x = "1" /\ y = "2" -> "DC2"
      [] x = "1" /\ y = "F" -> "US"
      [] x = "2" /\ y = "0" -> "SP"
      [] x = "2" /\ y = "1" -> "!"
      [] x = "2" /\ y = "2" -> "DQUOTE"
      [] x = "2" /\ y = "F" -> "/"
      [] OTHER -> "REPL"

RECURSIVE unquote(_)
\* urllib.parse.unquote: %xy with two hex digits is decoded, any other "%"
\* is kept
unquote(str) ==
    Once(str, LAMBDA s :
        IF s = <<>> THEN <<>>
        ELSE IF Head(s) = "%" /\ Len(s) >= 3 /\ s[2] \in HexDigits /\ s[3] \in HexDigits
             THEN <<PctDecode(s[2], s[3])>> \o unquote(SubSeq(s, 4, Len(s)))
             ELSE <<Head(s)>> \o unquote(Tail(s)))

RECURSIVE LStrip(_, _)
LStrip(str, cs) ==
    Once(str, LAMBDA s : IF s # <<>> /\ Head(s) \in cs THEN LStrip(Tail(s), cs) ELSE s)

RECURSIVE RStrip(_, _)
RStrip(str, cs) ==
    Once(str, LAMBDA s :
        IF s # <<>> /\ s[Len(s)] \in cs THEN RStrip(SubSeq(s, 1, Len(s) - 1), cs) ELSE s)

\* str.strip(cs)
Strip(s, cs) == RStrip(LStrip(s, cs), cs)

RECURSIVE ReSub(_, _, _)
\* re.sub("[cs]+", "_", s): every maximal run of characters of cs becomes
\* one underscore; inRun says the previous character belonged to a run
ReSub(str, cs, inRun) ==
    Once(str, LAMBDA s :
        IF s = <<>> THEN <<>>
        ELSE IF Head(s) \in cs
             THEN (IF inRun THEN <<>> ELSE <<"_">>) \o ReSub(Tail(s), cs, TRUE)
             ELSE <<Head(s)>> \o ReSub(Tail(s), cs, FALSE))

(***************************************************************************)
(* Python values that are not always strings (JSON fields, name hints)     *)
(***************************************************************************)
JNull == [t |-> "null"]

JStr(s) == [t |-> "str", v |-> s]

JNum(n) == [t |-> "num", v |-> n]

JList(items) == [t |-> "list", v |-> items]

\* a JSON object: f is a function from the keys present to their values
JDict(f) == [t |-> "dict", v |-> f]

\* Python truthiness
Truthy(x) ==
    CASE x.t = "null" -> FALSE
      [] x.t = "str"  -> x.v # <<>>
      [] x.t = "num"  -> x.v # 0
      [] x.t = "list" -> x.v # <<>>
      [] x.t = "dict" -> DOMAIN x.v # {}
      [] OTHER -> TRUE

\* x or y
Or(x, y) == IF Truthy(x) THEN x ELSE y

\* d.get(key) of a dict value
Get(d, key) == IF key \in DOMAIN d.v THEN d.v[key] ELSE JNull

\* the outcome of a computation that raised an exception
Raised == [t |-> "raise"]

IsRaised(x) == x.t = "raise"

(***************************************************************************)
(* Filename resolver                                                       *)
(***************************************************************************)
\* safe_filename(name) for name a str or None; any other truthy value makes
\* unquote raise TypeError
safe_filename(name) ==
    IF Truthy(name) /\ name.t # "str" THEN Raised
    ELSE LET raw == IF name.t = "str" THEN name.v ELSE <<>>
             s1  == Strip(Strip(unquote(raw), Whitespace), {"."})
             s2  == ReSub(s1, ReClass, FALSE)
         IN  JStr(IF s2 # <<>> THEN s2 ELSE <<"f", "i", "l", "e">>)

\* index of the last "." of s, 0 if there is none
LastDot(s) == LET ds == {k \in 1..Len(s) : s[k] = "."}
              IN  IF ds = {} THEN 0 ELSE CHOOSE k \in ds : \A m \in ds : m <= k

\* os.path.splitext on a name without separators: the extension starts at
\* the last dot unless only dots precede it
splitext(str) ==
    Once(str, LAMBDA s : Once(LastDot(s), LAMBDA d :
        IF d > 0 /\ \E k \in 1..(d - 1) : s[k] # "."
        THEN <<SubSeq(s, 1, d - 1), SubSeq(s, d, Len(s))>>
        ELSE <<s, <<>> >>))

\* the while loop of unique_path: base_n + ext for the least n >= 2 that is
\* not the name of a file (one of the first |names| + 1 numbers is free)
Probe(names, base, ext) ==
    LET free == {n \in 2..(Cardinality(names) + 2) :
                    (base \o <<"_">> \o Str(n) \o ext) \notin names}
    IN  base \o <<"_">> \o Str(CHOOSE n \in free : \A m \in free : n <= m) \o ext

\* a unique_path that does not probe
unique_path_NoProbe(names, filename) == filename

\* unique_path(dirpath, filename), the directory given by the set of the
\* names it holds
unique_path(names, filename) ==
    IF filename \notin names THEN filename
    ELSE Once(splitext(filename), LAMBDA parts : Probe(names, parts[1], parts[2]))

(***************************************************************************)
(* URLs and content types                                                  *)
(*                                                                         *)
(* A URL is [scheme, loc, base]: base is the last segment of its path      *)
(* (os.path.basename(urlparse(url).path)), loc stands for everything       *)
(* before it (host and directory).  scheme is "https" or "http" for an     *)
(* absolute URL, "//" for a scheme-relative one, "cdn." for a bare host    *)
(* name starting with cdn., "data", "javascript", "blob" or "#" for the    *)
(* references looks_like_target rejects, "" for a relative reference.      *)
(* Every URL of the model is a non-empty string.                           *)
(***************************************************************************)
Url(scheme, loc, base) == [scheme |-> scheme, loc |-> loc, base |-> base]

DotWebp == EXTS[1]

DotGif == EXTS[2]

DotWebm == EXTS[3]

\* m in ct.lower(), for m one of the three accepted MIME types
CtHas(ct, m) ==
    CASE m = "image/gif"  -> ct \in {"image/gif", "IMAGE/GIF"}
      [] m = "image/webp" -> ct = "image/webp"
      [] m = "video/webm" -> ct = "video/webm"
      [] OTHER -> FALSE

\* looks_like_target(url, content_type)
looks_like_target(url, ct) ==
    IF url.scheme \in {"data", "javascript", "#", "blob"} THEN FALSE
    ELSE IF \E k \in 1..Len(EXTS) : EndsWith(Lower(url.base), EXTS[k]) THEN TRUE
    ELSE CtHas(ct, "image/webp") \/ CtHas(ct, "image/gif") \/ CtHas(ct, "video/webm")

\* ext_from_type_or_url(url, content_type)
ext_from_type_or_url(url, ct) ==
    LET path_ext == Lower(splitext(url.base)[2])
    IN  IF path_ext \in Range(EXTS) THEN path_ext
        ELSE IF CtHas(ct, "image/webp") THEN DotWebp
        ELSE IF CtHas(ct, "image/gif") THEN DotGif
        ELSE IF CtHas(ct, "video/webm") THEN DotWebm
        ELSE <<>>

\* the name save_bytes computes before unique_path (lines 125-128): a string,
\* or Raised when safe_filename raises
SaveName(url, ct, index, name_hint) ==
    LET ext  == ext_from_type_or_url(url, ct)
        safe == safe_filename(Or(name_hint, JStr(url.base)))
    IN  IF IsRaised(safe) THEN Raised
        ELSE LET name == IF safe.v # <<>> THEN safe.v ELSE <<"i", "m", "a", "g", "e", "_">> \o Str(index) \o ext
             IN  JStr(IF ext # <<>> /\ ~EndsWith(Lower(name), ext) THEN name \o ext ELSE name)

(***************************************************************************)
(* The output directory: a function from the names of the files it holds   *)
(* to their contents.  A response body is identified with the URL it was   *)
(* fetched from; complete is FALSE for a file whose write failed after     *)
(* open() had created it; asked is the name unique_path was called with.   *)
(***************************************************************************)
NoFiles == <<>>

FileContent(url, complete, asked) == [body |-> url, complete |-> complete, asked |-> asked]

\* what the filesystem does with open(path, "wb") followed by write(body)
FsOutcomes == {"ok", "open_fails", "write_fails"}

AddFile(dir, name, content) ==
    [n \in DOMAIN dir \cup {name} |-> IF n = name THEN content ELSE dir[n]]

\* save_bytes(out_dir, url, content_type, body, index, name_hint) under the
\* filesystem outcome fs: the directory afterwards, and whether it returned
\* (saved) or raised; open() raises ValueError on a path with an embedded
\* null byte
save_bytes(dir, url, ct, index, name_hint, fs) ==
    Once(SaveName(url, ct, index, name_hint), LAMBDA name :
        IF IsRaised(name) THEN [dir |-> dir, saved |-> FALSE, path |-> <<>>]
        ELSE Once(unique_path(DOMAIN dir, name.v), LAMBDA path :
                 IF fs = "open_fails" \/ "NUL" \in Range(path)
                 THEN [dir |-> dir, saved |-> FALSE, path |-> path]
                 ELSE IF fs = "write_fails"
                 THEN [dir |-> AddFile(dir, path, FileContent(url, FALSE, name.v)),
                       saved |-> FALSE, path |-> path]
                 ELSE [dir |-> AddFile(dir, path, FileContent(url, TRUE, name.v)),
                       saved |-> TRUE, path |-> path]))

(***************************************************************************)
(* The page URL: urlparse(page_url) as [netloc, path, q].  q maps the      *)
(* query parameters present (with a non-blank value) to their first value. *)
(***************************************************************************)
Page(netloc, path, q) == [netloc |-> netloc, path |-> path, q |-> q]

\* get_query_param(parsed, keys): the first non-empty stripped value
get_query_param(parsed, keys) ==
    LET hits == {k \in 1..Len(keys) :
                    /\ keys[k] \in DOMAIN parsed.q
                    /\ Strip(parsed.q[keys[k]], Whitespace) # <<>>}
    IN  IF hits = {} THEN <<>>
        ELSE Strip(parsed.q[keys[CHOOSE k \in hits : \A m \in hits : k <= m]], Whitespace)

\* looks_like_7tv_id(value)
looks_like_7tv_id(value) ==
    \/ Len(value) = 24 /\ \A k \in 1..24 : value[k] \in {"0", "1", "2", "3", "4", "5", "6", "7", "8", "9", "a", "b", "c", "d", "e", "f", "A", "B", "C", "D", "E", "F"}
    \/ Len(value) = 26 /\ \A k \in 1..26 : Upper(value)[k] \in (({"0", "1", "2", "3", "4", "5", "6", "7", "8", "9"} \cup Range(UpperAlpha)) \ {"I", "L", "O", "U"})

\* query_from_path(parsed, prefix)
query_from_path(parsed, prefix) ==
    IF StartsWith(parsed.path, prefix)
    THEN unquote(Strip(SubSeq(parsed.path, Len(prefix) + 1, Len(parsed.path)), {"/"}))
    ELSE <<>>

(***************************************************************************)
(* Site strategies.  Each takes the parsed page URL, whether the requests  *)
(* module was imported, and what the site's API answered: NetErr when the  *)
(* request, raise_for_status() or json() raised inside the try block, else *)
(* the decoded JSON value.  A string field that holds a URL is the value   *)
(* [t |-> "url", v |-> u].  The result is JNull for None, JList(targets),  *)
(* KeyMissing, or Raised when an exception leaves the function.            *)
(***************************************************************************)
NetErr == [t |-> "neterr"]

JUrl(u) == [t |-> "url", v |-> u]

KeyMissing == [t |-> "key_missing"]

\* a Target built by a site strategy: {"urls": [...], "name": ...}
Target(urls, name) == [urls |-> urls, name |-> name]

\* isinstance(target, dict), against a bare URL string
IsDictTarget(target) == "urls" \in DOMAIN target

\* the host and directory part of a URL built from an id
Loc(site, id) == [site |-> site, id |-> id]

\* normalize_url(url) for a None / str value that holds a URL; the empty
\* string is JStr(<<>>); .strip() raises on any other truthy value
normalize_url(url) ==
    IF ~Truthy(url) THEN JStr(<<>>)
    ELSE IF url.t # "url" THEN Raised
    ELSE IF url.v.scheme \in {"//", "cdn."}
         THEN JUrl([url.v EXCEPT !.scheme = "https"])
         ELSE url

RECURSIVE dedupe_from(_, _)
\* the loop of dedupe_urls over values, seen holding the URLs already kept
dedupe_from(urls, seen) ==
    IF urls = <<>> THEN JList(<<>>)
    ELSE LET u == normalize_url(Head(urls))
         IN  IF IsRaised(u) THEN Raised
             ELSE IF ~Truthy(u) \/ u.v \in seen THEN dedupe_from(Tail(urls), seen)
             ELSE LET rest == dedupe_from(Tail(urls), seen \cup {u.v})
                  IN  IF IsRaised(rest) THEN Raised ELSE JList(<<u.v>> \o rest.v)

\* dedupe_urls(urls): a JList of URLs in first-seen order, or Raised
dedupe_urls(urls) == dedupe_from(urls, {})

\* pick_list(data, keys): <<found, items>>
pick_list(data, keys) ==
    IF data.t = "list" THEN <<TRUE, data.v>>
    ELSE IF data.t = "dict"
              /\ \E k \in 1..Len(keys) : keys[k] \in DOMAIN data.v /\ data.v[keys[k]].t = "list"
         THEN <<TRUE, data.v[keys[CHOOSE k \in 1..Len(keys) :
                        /\ keys[k] \in DOMAIN data.v /\ data.v[keys[k]].t = "list"
                        /\ \A m \in 1..(k - 1) :
                              ~(keys[m] \in DOMAIN data.v /\ data.v[keys[m]].t = "list")]].v>>
         ELSE <<FALSE, <<>> >>

QueryKeys == <<"query", "q", "search", "term">>

QKeys == <<"q", "query", "search", "term">>

EmptyDict == JDict(<<>>)

BttvSearchPath == <<"/", "e", "m", "o", "t", "e", "s", "/", "s", "h", "a", "r", "e", "d",
                    "/", "s", "e", "a", "r", "c", "h">>

EmotesPath == <<"/", "e", "m", "o", "t", "e", "s", "/">>

SearchPath == <<"/", "s", "e", "a", "r", "c", "h", "/">>

EmoticonsPath == <<"/", "e", "m", "o", "t", "i", "c", "o", "n", "s", "/">>

\* the two candidate URLs betterttv_targets builds for an emote id
bttv_urls(emote_id) ==
    << Url("https", Loc("cdn.betterttv.net/emote", emote_id), <<"3", "x">> \o DotWebp),
       Url("https", Loc("cdn.betterttv.net/emote", emote_id), <<"3", "x">>) >>

\* does the emote of the response get a Target (line 223)
bttv_keeps(emote) == Truthy(Get(emote, "id"))

\* the for loop of betterttv_targets over the items of the response:
\* emote.get raises on an item that is not a dict, an emote without id is
\* skipped, every other one appends a Target
bttv_loop(data) ==
    IF \E k \in 1..Len(data) : data[k].t # "dict" THEN Raised
    ELSE LET kept == SelectSeq(data, bttv_keeps)
         IN  JList([k \in 1..Len(kept) |->
                      Target(bttv_urls(Get(kept[k], "id")),
                             Or(Get(kept[k], "code"), Get(kept[k], "id")))])

\* betterttv_targets(page_url, limit)
betterttv_targets(parsed, requests_ok, resp) ==
    IF parsed.netloc \notin {"betterttv.com", "www.betterttv.com"} THEN JNull
    ELSE IF ~StartsWith(parsed.path, BttvSearchPath) THEN JNull
    ELSE IF ~requests_ok THEN JNull
    ELSE IF get_query_param(parsed, QueryKeys) = <<>> THEN JList(<<>>)
    ELSE IF resp.t = "neterr" THEN JList(<<>>)
    ELSE IF resp.t # "list" THEN JList(<<>>)
    ELSE bttv_loop(resp.v)

\* seventv_cdn_urls(emote_id)
seventv_cdn_urls(emote_id) ==
    LET sizes == <<"4", "3", "2", "1">>
        exts  == <<DotGif, DotWebp>>
    IN  [k \in 1..8 |->
            Url("https", Loc("cdn.7tv.app/emote", emote_id),
                <<sizes[((k - 1) \div 2) + 1], "x">> \o exts[((k - 1) % 2) + 1])]

RECURSIVE seventv_files_loop(_, _)
\* the loop over host["files"] in seventv_urls_from_item: the URLs appended
seventv_files_loop(files, base) ==
    IF files = <<>> THEN JList(<<>>)
    ELSE LET file == Head(files)
         IN  IF file.t # "dict" THEN Raised
             ELSE LET name == Get(file, "name")
                      rest == seventv_files_loop(Tail(files), base)
                  IN  IF Truthy(name) /\ Truthy(base) /\ name.t # "str" THEN Raised
                      ELSE IF IsRaised(rest) THEN Raised
                      ELSE IF Truthy(name) /\ Truthy(base)
                              /\ looks_like_target([base.v EXCEPT !.base = name.v], "")
                           THEN JList(<<JUrl([base.v EXCEPT !.base = name.v])>> \o rest.v)
                           ELSE rest

\* seventv_urls_from_item(item) for a dict item
seventv_urls_from_item(item) ==
    LET host0 == Get(item, "host")
        host  == IF ~Truthy(host0) /\ Get(item, "data").t = "dict"
                 THEN Get(Get(item, "data"), "host") ELSE host0
        base  == normalize_url(Get(host, "url"))
        files == Or(Get(host, "files"), JList(<<>>))
        urls  == IF host.t # "dict" THEN JList(<<>>)
                 ELSE IF IsRaised(base) \/ files.t # "list" THEN Raised
                 ELSE seventv_files_loop(files.v, base)
        emote_id == Or(Get(item, "id"), Get(item, "_id"))
    IN  IF IsRaised(urls) THEN Raised
        ELSE IF Truthy(emote_id) /\ urls.v = <<>>
             THEN dedupe_urls([k \in 1..8 |-> JUrl(seventv_cdn_urls(emote_id)[k])])
             ELSE dedupe_urls(urls.v)

\* seventv_api_search(query, limit): the items, or Raised
seventv_api_search(resp) ==
    IF resp.t = "neterr" THEN JList(<<>>)
    ELSE IF resp.t # "dict" THEN Raised
    ELSE LET d1 == IF "data" \in DOMAIN resp.v THEN resp.v["data"] ELSE EmptyDict
         IN  IF d1.t # "dict" THEN Raised
             ELSE LET d2 == IF "emotes" \in DOMAIN d1.v THEN d1.v["emotes"] ELSE EmptyDict
                  IN  IF d2.t # "dict" THEN Raised
                      ELSE IF Get(d2, "items").t = "list" THEN Get(d2, "items")
                      ELSE JList(<<>>)

\* does the item get a Target (line 312)
seventv_keeps(item) == seventv_urls_from_item(item).v # <<>>

\* the for loop of seventv_targets over the items: item.get raises on an
\* item that is not a dict, seventv_urls_from_item may raise, an item
\* without URLs is skipped, every other one appends a Target
seventv_loop(items) ==
    IF \E k \in 1..Len(items) :
          items[k].t # "dict" \/ IsRaised(seventv_urls_from_item(items[k]))
    THEN Raised
    ELSE LET kept == SelectSeq(items, seventv_keeps)
         IN  JList([k \in 1..Len(kept) |->
                      Target(seventv_urls_from_item(kept[k]).v,
                             Or(Or(Get(kept[k], "name"), Get(kept[k], "code")),
                                Or(Get(kept[k], "id"), Get(kept[k], "_id"))))])

\* seventv_targets(page_url, limit)
seventv_targets(parsed, requests_ok, resp) ==
    LET emote_id == query_from_path(parsed, EmotesPath)
        q1 == get_query_param(parsed, QueryKeys)
        q2 == IF q1 # <<>> THEN q1 ELSE query_from_path(parsed, SearchPath)
        query == IF q2 = <<>> /\ emote_id # <<>> /\ "/" \notin Range(emote_id)
                 THEN emote_id ELSE q2
        items == seventv_api_search(resp)
    IN  IF parsed.netloc \notin {"7tv.app", "www.7tv.app", "7tv.io", "www.7tv.io"} THEN JNull
        ELSE IF ~requests_ok THEN JNull
        ELSE IF emote_id # <<>> /\ "/" \notin Range(emote_id) /\ looks_like_7tv_id(emote_id)
             THEN JList(<<Target(seventv_cdn_urls(JStr(emote_id)), JStr(emote_id))>>)
        ELSE IF query = <<>> THEN JList(<<>>)
        ELSE IF IsRaised(items) THEN Raised
        ELSE seventv_loop(items.v)

\* ffz_api_search(query, limit): resps[k] is the answer of the k-th
\* endpoint, NetErr also standing for a response that is not ok
ffz_api_search(resps) ==
    LET found == {k \in 1..Len(resps) :
                    /\ resps[k].t # "neterr"
                    /\ pick_list(resps[k], <<"emotes", "emoticons", "results">>)[1]}
    IN  IF found = {} THEN <<>>
        ELSE pick_list(resps[CHOOSE k \in found : \A m \in found : k <= m],
                       <<"emotes", "emoticons", "results">>)[2]

\* add_urls(url_map) inside ffz_urls_from_emote: the values appended
ffz_add_urls(url_map) ==
    LET keys == <<"4", "2", "1">>
        F[k \in 0..3] == IF k = 0 THEN <<>>
                         ELSE IF Truthy(Get(url_map, keys[k]))
                              THEN F[k - 1] \o <<Get(url_map, keys[k])>> ELSE F[k - 1]
    IN  F[3]

\* ffz_urls_from_emote(emote) for a dict emote
ffz_urls_from_emote(emote) ==
    LET urls_map  == Or(Get(emote, "urls"), EmptyDict)
        animated  == Get(emote, "animated")
        anim_urls == IF animated.t = "dict" THEN Or(Get(animated, "urls"), EmptyDict) ELSE JNull
    IN  dedupe_urls((IF urls_map.t = "dict" THEN ffz_add_urls(urls_map) ELSE <<>>)
                    \o (IF anim_urls.t = "dict" THEN ffz_add_urls(anim_urls) ELSE <<>>))

\* a loop that appends a Target for every item
ffz_keeps_All(item) == TRUE

\* does the item get a Target (line 380)
ffz_keeps(item) == ffz_urls_from_emote(item).v # <<>>

\* the for loop of ffz_targets over the items: item.get raises on an item
\* that is not a dict, ffz_urls_from_emote may raise, an item without URLs
\* is skipped, every other one appends a Target
ffz_loop(items) ==
    IF \E k \in 1..Len(items) :
          items[k].t # "dict" \/ IsRaised(ffz_urls_from_emote(items[k]))
    THEN Raised
    ELSE LET kept == SelectSeq(items, ffz_keeps)
         IN  JList([k \in 1..Len(kept) |->
                      Target(ffz_urls_from_emote(kept[k]).v,
                             Or(Or(Get(kept[k], "name"), Get(kept[k], "code")),
                                IF Truthy(Get(kept[k], "id"))
                                THEN (IF Get(kept[k], "id").t = "num"
                                      THEN JStr(Str(Get(kept[k], "id").v))
                                      ELSE Get(kept[k], "id"))
                                ELSE JNull))])

\* ffz_targets(page_url, limit)
ffz_targets(parsed, requests_ok, resps) ==
    LET q1 == get_query_param(parsed, QKeys)
        query == IF q1 # <<>> THEN q1 ELSE query_from_path(parsed, EmoticonsPath)
    IN  IF parsed.netloc \notin {"frankerfacez.com", "www.frankerfacez.com"} THEN JNull
        ELSE IF ~requests_ok THEN JNull
        ELSE IF query = <<>> THEN JList(<<>>)
        ELSE ffz_loop(ffz_api_search(resps))

\* the candidate values giphy_targets collects from item["images"], or Raised
giphy_item_urls(item) ==
    LET images    == Or(Get(item, "images"), EmptyDict)
        original  == Or(Get(images, "original"), EmptyDict)
        downsized == Or(Or(Get(images, "downsized_large"), Get(images, "downsized")), EmptyDict)
        preview   == Or(Get(images, "preview_webp"), EmptyDict)
    IN  IF images.t # "dict" THEN Raised
        ELSE IF original.t # "dict" \/ downsized.t # "dict" \/ preview.t # "dict" THEN Raised
        ELSE dedupe_urls(
               (IF Truthy(Get(original, "webp")) THEN <<Get(original, "webp")>> ELSE <<>>)
            \o (IF Truthy(Get(original, "url")) THEN <<Get(original, "url")>> ELSE <<>>)
            \o (IF Truthy(Get(downsized, "url")) THEN <<Get(downsized, "url")>> ELSE <<>>)
            \o (IF Truthy(Get(preview, "url")) THEN <<Get(preview, "url")>> ELSE <<>>))

\* does the item get a Target (line 440)
giphy_keeps(item) == giphy_item_urls(item).v # <<>>

\* the for loop of giphy_targets over the items: item.get raises on an item
\* that is not a dict, collecting the URLs may raise, an item without URLs
\* is skipped, every other one appends a Target
giphy_loop(items) ==
    IF \E k \in 1..Len(items) :
          items[k].t # "dict" \/ IsRaised(giphy_item_urls(items[k]))
    THEN Raised
    ELSE LET kept == SelectSeq(items, giphy_keeps)
         IN  JList([k \in 1..Len(kept) |->
                      Target(giphy_item_urls(kept[k]).v,
                             Or(Or(Get(kept[k], "title"), Get(kept[k], "slug")),
                                Get(kept[k], "id")))])

\* str.replace("-", " ")
DashToSpace(s) == [k \in 1..Len(s) |-> IF s[k] = "-" THEN "SP" ELSE s[k]]

\* giphy_targets(page_url, limit); api_key is os.environ.get("GIPHY_API_KEY", "")
giphy_targets(parsed, requests_ok, api_key, resp) ==
    LET q1 == get_query_param(parsed, QKeys)
        query == IF q1 # <<>> THEN q1 ELSE DashToSpace(query_from_path(parsed, SearchPath))
    IN  IF parsed.netloc \notin {"giphy.com", "www.giphy.com"} THEN JNull
        ELSE IF ~requests_ok THEN JNull
        ELSE IF query = <<>> THEN JList(<<>>)
        ELSE IF Strip(api_key, Whitespace) = <<>> THEN KeyMissing
        ELSE IF resp.t = "neterr" THEN JList(<<>>)
        ELSE IF ~pick_list(resp, <<"data">>)[1] THEN JList(<<>>)
        ELSE giphy_loop(pick_list(resp, <<"data">>)[2])

(***************************************************************************)
(* State of one run of main()                                              *)
(***************************************************************************)
VARIABLES
    pc,           \* position in main(): "input", "bttv", "seventv", "ffz", "giphy",
                  \* "pw_check", "launch", "goto", "idle", "capture", "live_start",
                  \* "live_dl", "close", "fallback", "download", "done", "crashed"
    page,         \* urlparse(page_url); NoPage when the input was empty
    requests_ok,  \* the requests module was imported (requests is not None)
    out_dir,      \* mk_out_dir has been called
    files,        \* contents of the output directory
    strat_out,    \* what the site strategy that claimed the URL returned
    targets,      \* the list being downloaded (parameter targets / local targets)
    net,          \* how the network answers during this download: "any", "up", "down"
    i,            \* 1-based index of the Target being processed
    j,            \* 1-based index of the candidate URL to try next
    ok,           \* local ok of the running download loop
    fail,         \* local fail of the running download loop
    last_saved,   \* [i, j, path] of the latest successful save_bytes
    captured,     \* live capture: list of <<url, content_type>>
    seen,         \* live capture: set of URLs
    pending,      \* responses the browser still delivers in the capture window
    calls,        \* which download loops have been entered, in order
    invoked,      \* strategies and scanners called so far, in call order
    notices,      \* messages printed so far
    attempts,     \* Targets whose download has been attempted in this run
    nameIn,       \* filename specification: the arguments of save_bytes
    nameOut,      \* filename specification: the name computed
    fetched,      \* <<i, j>> of the requests.get calls made by the running
                  \* download_requests_targets, in order
    html_doc,     \* what requests.get answered to html_targets; JNull before
    clock,        \* directory specification: time.time() in whole seconds
    disk,         \* directory specification: the directories that exist
    runs          \* directory specification: what mk_out_dir returned to each
                  \* run so far, and whether that directory was created by it

vars == <<pc, page, requests_ok, out_dir, files, strat_out, targets, net, i, j, ok, fail,
          last_saved, captured, seen, pending, calls, invoked, notices, attempts,
          nameIn, nameOut, fetched, html_doc, clock, disk, runs>>

dlVars == <<targets, net, i, j, ok, fail, fetched>>

(***************************************************************************)
(* Inputs of the model                                                     *)
(***************************************************************************)
SeqsUpTo(S, n) == UNION {[1..m -> S] : m \in 0..n}

Pog == <<"p", "o", "g">>

NameP == <<"P">>

NoQuery == <<>>

QueryPog == [k \in {"query"} |-> Pog]

QPog == [k \in {"q"} |-> Pog]

\* a 24-digit hexadecimal 7TV emote id
Id24 == [k \in 1..24 |-> IF k % 2 = 0 THEN "a" ELSE "6"]

\* the page URLs explored; NoPage is the empty input
NoPage == Page("", <<>>, NoQuery)

Pages == {
    NoPage,
    Page("betterttv.com", BttvSearchPath, QueryPog),
    Page("betterttv.com", BttvSearchPath, NoQuery),
    Page("betterttv.com", <<"/">>, QueryPog),
    Page("7tv.app", EmotesPath \o Id24, NoQuery),
    Page("7tv.app", EmotesPath \o Pog, NoQuery),
    Page("7tv.app", SearchPath \o Pog, NoQuery),
    Page("7tv.app", <<"/">>, NoQuery),
    Page("www.frankerfacez.com", EmoticonsPath \o Pog, NoQuery),
    Page("www.frankerfacez.com", <<"/">>, QPog),
    Page("www.frankerfacez.com", <<"/">>, NoQuery),
    Page("giphy.com", SearchPath \o <<"a", "-", "b">>, NoQuery),
    Page("giphy.com", <<"/">>, QPog),
    Page("giphy.com", <<"/">>, NoQuery),
    Page("example.com", <<"/">>, NoQuery) }

\* the pages also explored on an installation without the requests module
PagesWithoutRequests ==
    {Page("betterttv.com", BttvSearchPath, QueryPog), Page("example.com", <<"/">>, NoQuery)}

\* number of items in the short API answers explored
MaxItems == 2

\* length of the long lists explored
LongLen == MAX_DOWNLOADS + 1

Rec1(k1, v1) == JDict([k \in {k1} |-> v1])

Rec2(k1, v1, k2, v2) == JDict([k \in {k1, k2} |-> IF k = k1 THEN v1 ELSE v2])

Rec3(k1, v1, k2, v2, k3, v3) ==
    JDict([k \in {k1, k2, k3} |-> IF k = k1 THEN v1 ELSE IF k = k2 THEN v2 ELSE v3])

\* the k-th emote of a long answer: distinct ids, one shared name
BttvEmote(k) == Rec2("id", JStr(Str(k)), "code", JStr(NameP))

BttvItems == { BttvEmote(1),
               Rec1("id", JStr(<<"2">>)),
               Rec1("code", JStr(NameP)),
               Rec2("id", JStr(<<"3">>), "code", JNum(7)),
               JNull }

BttvResponses ==
    {NetErr, EmptyDict} \cup {JList(l) : l \in SeqsUpTo(BttvItems, MaxItems)}
        \cup {JList([k \in 1..LongLen |-> BttvEmote(k)])}

CdnHost(k) == JUrl(Url("//", Loc("cdn.7tv.app/emote", JStr(Str(k))), <<>>))

FileRec(name) == Rec1("name", JStr(name))

SevenEmote(k) ==
    Rec3("id", JStr(Str(k)), "name", JStr(NameP),
         "host", Rec2("url", CdnHost(k),
                      "files", JList(<<FileRec(<<"4", "x">> \o DotWebp),
                                       FileRec(<<"4", "x", ".", "a", "v", "i", "f">>)>>)))

SevenItems == { SevenEmote(1),
                Rec2("id", JStr(<<"2">>), "name", JStr(NameP)),
                Rec1("name", JStr(NameP)),
                Rec2("id", JStr(<<"3">>), "host", Rec2("url", CdnHost(3), "files", JList(<<JNull>>))),
                Rec2("id", JStr(<<"4">>), "host", Rec2("url", JNum(5), "files", JNull)),
                JNull }

SevenBody(items) == Rec1("data", Rec1("emotes", Rec1("items", items)))

SevenResponses ==
    {NetErr, JList(<<>>), EmptyDict, Rec1("data", JNull), Rec1("data", Rec1("emotes", JNull)),
     SevenBody(JNull)}
        \cup {SevenBody(JList(l)) : l \in SeqsUpTo(SevenItems, MaxItems)}
        \cup {SevenBody(JList([k \in 1..LongLen |-> SevenEmote(k)]))}

FfzUrl(k, size) == JUrl(Url("//", Loc("cdn.frankerfacez.com/emote", JStr(Str(k))), <<size>>))

FfzEmote(k) ==
    Rec3("id", JNum(k), "name", JStr(NameP),
         "urls", JDict([s \in {"1", "4"} |-> FfzUrl(k, s)]))

FfzItems == { FfzEmote(1),
              Rec2("id", JNum(2), "urls", JNull),
              Rec2("id", JNum(3), "animated", Rec1("urls", Rec1("2", FfzUrl(3, "2")))),
              Rec2("id", JNum(4), "urls", Rec1("1", JNum(5))),
              JNull }

FfzFirst == {NetErr, EmptyDict, Rec1("emoticons", JList(<<FfzEmote(1)>>))}

FfzSecond ==
    {NetErr, JNull} \cup {JList(l) : l \in SeqsUpTo(FfzItems, MaxItems)}
        \cup {Rec1("results", JList([k \in 1..LongLen |-> FfzEmote(k)]))}

FfzResponses == {<<a, b>> : a \in FfzFirst, b \in FfzSecond}

GiphyUrl(k, base) == JUrl(Url("https", Loc("media.giphy.com/media", JStr(Str(k))), base))

GiphyGif(k) ==
    Rec2("title", JStr(NameP),
         "images", Rec2("original", Rec2("webp", GiphyUrl(k, <<"g">> \o DotWebp),
                                          "url", GiphyUrl(k, <<"g">> \o DotGif)),
                        "downsized", Rec1("url", GiphyUrl(k, <<"g">> \o DotGif))))

GiphyItems == { GiphyGif(1),
                Rec2("id", JStr(<<"2">>), "images", JNull),
                Rec2("slug", JStr(<<"s">>),
                     "images", Rec1("preview_webp", Rec1("url", GiphyUrl(3, <<"p">>)))),
                Rec1("images", Rec1("original", JStr(<<"x">>))),
                JNull }

GiphyResponses ==
    {NetErr, EmptyDict, JNull} \cup {Rec1("data", JList(l)) : l \in SeqsUpTo(GiphyItems, MaxItems)}
        \cup {JList([k \in 1..LongLen |-> GiphyGif(k)])}

\* values of the GIPHY_API_KEY environment variable (unset reads as "")
ApiKeys == {<<>>, <<"SP">>, <<"k">>}

(***************************************************************************)
(* Download executor                                                       *)
(***************************************************************************)
\* what requests.get / context.request.get yields for one URL: an exception,
\* a response that is not ok, or an ok response with a Content-Type
FetchOutcomes ==
    {[kind |-> "exc", ct |-> ""], [kind |-> "status", ct |-> ""]}
        \cup {[kind |-> "ok", ct |-> c] : c \in {"", "image/webp", "text/html"}}

\* the fetch and filesystem outcomes explored under network mode n (the
\* filesystem is reached only after a fetch that returned ok)
Outcomes(n) ==
    CASE n = "up"   -> {<<[kind |-> "ok", ct |-> "image/gif"], "ok">>}
      [] n = "down" -> {<<[kind |-> "exc", ct |-> ""], "ok">>}
      [] OTHER      -> {o \in FetchOutcomes \X FsOutcomes : o[1].kind = "ok" \/ o[2] = "ok"}

\* network modes a list of length n is explored under
NetModes(n) == IF n > RichLen THEN {"up", "down"} ELSE {"any"}

\* number of writes that may fail after open() in one run
MaxWriteFaults == 1

Incomplete(dir) == {n \in DOMAIN dir : ~dir[n].complete}

\* targets[:MAX_DOWNLOADS]
Capped(ts) == SubSeq(ts, 1, Min(Len(ts), MAX_DOWNLOADS))

NoSave == [i |-> 0, j |-> 0, path |-> <<>>]

\* the call download_requests_targets(ts, out_dir, page_url) made by who
StartDownload(ts, who) ==
    /\ calls' = Append(calls, who)
    /\ IF ~requests_ok
       THEN /\ notices' = notices \cup {"requests is not installed"}
            /\ pc' = "done"
            /\ UNCHANGED dlVars
       ELSE /\ targets' = ts
            /\ net' \in NetModes(Len(ts))
            /\ i' = 1 /\ j' = 1 /\ ok' = 0 /\ fail' = 0
            /\ fetched' = <<>>
            /\ pc' = "download"
            /\ UNCHANGED notices

\* urls and name_hint of a Target (lines 496-501)
UrlsOf(target) == IF IsDictTarget(target) THEN target.urls ELSE <<target>>

\* a candidate loop that gives up the Target at its first failed candidate
NextOnFailure_NoFallback(n, jj) == FALSE

\* after candidate jj of n failed: is there another candidate to try
NextOnFailure(n, jj) == jj < n

\* a candidate loop that fetches the failed candidate again
NextCandidate_Retry(jj) == jj

\* the candidate the inner loop goes on with after candidate jj failed
NextCandidate(jj) == jj + 1

\* one iteration of the inner loop of download_requests_targets (lines
\* 506-527) on candidate j of Target i, followed, when it was the last
\* iteration for this Target, by lines 529-532; a Target without URLs goes
\* straight to line 529
DownloadStep ==
    /\ pc = "download"
    /\ i <= Len(Capped(targets))
    /\ LET target == Capped(targets)[i]
           urls   == UrlsOf(target)
           name_hint == IF IsDictTarget(target) THEN target.name ELSE JNull
       IN  IF urls = <<>>
           THEN /\ fail' = fail + 1
                /\ i' = i + 1
                /\ attempts' = attempts + 1
                /\ UNCHANGED <<j, ok, files, last_saved, fetched>>
           ELSE \E o \in Outcomes(net) :
                  LET out    == o[1]
                      passes == out.kind = "ok" /\ looks_like_target(urls[j], out.ct)
                      r      == save_bytes(files, urls[j], out.ct, i, name_hint, o[2])
                  IN  /\ (passes /\ o[2] = "write_fails")
                            => Cardinality(Incomplete(files)) < MaxWriteFaults
                      /\ attempts' = attempts + (IF j = 1 THEN 1 ELSE 0)
                      /\ fetched' = Append(fetched, <<i, j>>)
                      /\ files' = IF passes THEN r.dir ELSE files
                      /\ IF passes /\ r.saved
                         THEN /\ ok' = ok + 1
                              /\ last_saved' = [i |-> i, j |-> j, path |-> r.path]
                              /\ i' = i + 1 /\ j' = 1
                              /\ UNCHANGED fail
                         ELSE IF NextOnFailure(Len(urls), j)
                         THEN /\ j' = NextCandidate(j)
                              /\ UNCHANGED <<i, ok, fail, last_saved>>
                         ELSE /\ fail' = fail + 1
                              /\ i' = i + 1 /\ j' = 1
                              /\ UNCHANGED <<ok, last_saved>>
    /\ UNCHANGED <<pc, page, requests_ok, out_dir, strat_out, targets, net,
                   captured, seen, pending, calls, invoked, notices, nameIn, nameOut,
                   html_doc, clock, disk, runs>>

\* the loop of download_requests_targets is over: line 534, and every caller
\* returns to the end of main()
DownloadDone ==
    /\ pc = "download"
    /\ i > Len(Capped(targets))
    /\ notices' = notices \cup {"Done"}
    /\ pc' = "done"
    /\ UNCHANGED <<page, requests_ok, out_dir, files, strat_out, targets, net, i, j, ok, fail,
                   last_saved, captured, seen, pending, calls, invoked, attempts,
                   nameIn, nameOut, fetched, html_doc, clock, disk, runs>>

(***************************************************************************)
(* main(): input and site strategies                                       *)
(***************************************************************************)
\* a main() that leaves the directory to the first write
ReadInput_Lazy ==
    /\ pc = "input"
    /\ IF page = NoPage
       THEN /\ notices' = notices \cup {"No URL provided"}
            /\ pc' = "done"
       ELSE /\ pc' = "bttv"
            /\ UNCHANGED notices
    /\ UNCHANGED <<page, requests_ok, out_dir, files, strat_out, targets, net, i, j, ok, fail,
                   last_saved, captured, seen, pending, calls, invoked, attempts,
                   nameIn, nameOut, fetched, html_doc, clock, disk, runs>>

\* lines 549-555: read the URL; mk_out_dir unless it is empty
ReadInput ==
    /\ pc = "input"
    /\ IF page = NoPage
       THEN /\ notices' = notices \cup {"No URL provided"}
            /\ pc' = "done"
            /\ UNCHANGED out_dir
       ELSE /\ out_dir' = TRUE
            /\ pc' = "bttv"
            /\ UNCHANGED notices
    /\ UNCHANGED <<page, requests_ok, files, strat_out, targets, net, i, j, ok, fail,
                   last_saved, captured, seen, pending, calls, invoked, attempts,
                   nameIn, nameOut, fetched, html_doc, clock, disk, runs>>

\* an empty result that is treated like None
EmptyGoesTo_Next(next) == next

\* where main() continues after a claiming strategy returned an empty
\* list: the return at lines 564, 573, 582, 593
EmptyGoesTo(next) == "done"

\* a call that passes the list on without its first Target
Handed_Rest(r) == Tail(r.v)

\* the list main() passes to download_requests_targets (lines 563, 572,
\* 581, 592): the strategy's return value itself
Handed(r) == r.v

\* what main() does with the value r a site strategy returned (the blocks
\* at lines 557-564, 566-573, 575-582 and 587-593): None goes on to next, an
\* empty list returns, a non-empty list is downloaded and main() returns;
\* an exception raised by the strategy ends main()
AfterStrategy(who, r, next) ==
    /\ invoked' = Append(invoked, who)
    /\ IF IsRaised(r)
       THEN /\ pc' = "crashed"
            /\ UNCHANGED <<strat_out, notices, calls, dlVars>>
       ELSE IF r.t = "null"
       THEN /\ pc' = next
            /\ UNCHANGED <<strat_out, notices, calls, dlVars>>
       ELSE IF r.v = <<>>
       THEN /\ strat_out' = [by |-> who, result |-> r]
            /\ notices' = notices \cup {"none found via API"}
            /\ pc' = EmptyGoesTo(next)
            /\ UNCHANGED <<calls, dlVars>>
       ELSE /\ strat_out' = [by |-> who, result |-> r]
            /\ StartDownload(Handed(r), who)

\* lines 557-564
TryBetterTTV ==
    /\ pc = "bttv"
    /\ \E resp \in BttvResponses :
          AfterStrategy("bttv", betterttv_targets(page, requests_ok, resp), "seventv")
    /\ UNCHANGED <<page, requests_ok, out_dir, files, last_saved, captured, seen, pending,
                   attempts, nameIn, nameOut, html_doc, clock, disk, runs>>

\* lines 566-573
TrySevenTV ==
    /\ pc = "seventv"
    /\ \E resp \in SevenResponses :
          AfterStrategy("seventv", seventv_targets(page, requests_ok, resp), "ffz")
    /\ UNCHANGED <<page, requests_ok, out_dir, files, last_saved, captured, seen, pending,
                   attempts, nameIn, nameOut, html_doc, clock, disk, runs>>

\* lines 575-582
TryFFZ ==
    /\ pc = "ffz"
    /\ \E resps \in FfzResponses :
          AfterStrategy("ffz", ffz_targets(page, requests_ok, resps), "giphy")
    /\ UNCHANGED <<page, requests_ok, out_dir, files, last_saved, captured, seen, pending,
                   attempts, nameIn, nameOut, html_doc, clock, disk, runs>>

\* a Giphy block that returns after the skip notice
AfterKeyMissing_Stop == "done"

\* where main() continues after printing the GIPHY_API_KEY notice (lines
\* 585-586 have no return: control reaches line 595)
AfterKeyMissing == "pw_check"

\* lines 584-593
TryGiphy ==
    /\ pc = "giphy"
    /\ \E resp \in GiphyResponses, api_key \in ApiKeys :
          LET r == giphy_targets(page, requests_ok, api_key, resp)
          IN  IF r.t = "key_missing"
              THEN /\ invoked' = Append(invoked, "giphy")
                   /\ strat_out' = [by |-> "giphy", result |-> r]
                   /\ notices' = notices \cup {"GIPHY_API_KEY is not set; skipping Giphy API"}
                   /\ pc' = AfterKeyMissing
                   /\ UNCHANGED <<calls, dlVars>>
              ELSE AfterStrategy("giphy", r, "pw_check")
    /\ UNCHANGED <<page, requests_ok, out_dir, files, last_saved, captured, seen, pending,
                   attempts, nameIn, nameOut, html_doc, clock, disk, runs>>

(***************************************************************************)
(* Generic HTML scanner                                                    *)
(***************************************************************************)
\* the characters of URLs in ascending code point order
CodeOrder == <<".", "/">> \o DigitChar \o UpperAlpha \o <<"_">> \o LowerAlpha

Code(c) == CHOOSE k \in 1..Len(CodeOrder) : CodeOrder[k] = c

RECURSIVE StrLess(_, _)
\* a < b for Python strings
StrLess(a, b) ==
    IF b = <<>> THEN FALSE
    ELSE IF a = <<>> THEN TRUE
    ELSE IF Head(a) # Head(b) THEN Code(Head(a)) < Code(Head(b))
    ELSE StrLess(Tail(a), Tail(b))

SchemeOrder == <<"blob", "data", "http", "https", "javascript">>

SiteOrder == <<"7tv.app", "betterttv.com", "cdn.example", "example.com", "giphy.com",
               "i.gif", "i.gifer.com", "www.frankerfacez.com">>

Rank(order, x) == CHOOSE k \in 1..Len(order) : order[k] = x

\* u1 < u2 for the URL strings scheme://site/id/base
UrlLess(u1, u2) ==
    IF u1.scheme # u2.scheme THEN Rank(SchemeOrder, u1.scheme) < Rank(SchemeOrder, u2.scheme)
    ELSE IF u1.loc.site # u2.loc.site
         THEN Rank(SiteOrder, u1.loc.site) < Rank(SiteOrder, u2.loc.site)
    ELSE IF u1.loc.id.v # u2.loc.id.v THEN StrLess(u1.loc.id.v, u2.loc.id.v)
    ELSE StrLess(u1.base, u2.base)

\* a list of the set in descending order
sorted_Descending(urls) ==
    LET above == [u \in urls |-> Cardinality({w \in urls : UrlLess(u, w)})]
    IN  [k \in 1..Cardinality(urls) |-> CHOOSE u \in urls : above[u] = k - 1]

\* sorted(urls) of a set of URLs: the k-th element has k - 1 smaller ones
sorted(urls) ==
    LET below == [u \in urls |-> Cardinality({w \in urls : UrlLess(w, u)})]
    IN  [k \in 1..Cardinality(urls) |-> CHOOSE u \in urls : below[u] = k - 1]

\* urljoin(page_url, ref): a relative reference takes scheme, host and
\* directory of the page, a scheme-relative one its scheme
urljoin(parsed, ref) ==
    IF ref.scheme = "" THEN Url("https", Loc(parsed.netloc, JStr(<<>>)), ref.base)
    ELSE IF ref.scheme = "//" THEN [ref EXCEPT !.scheme = "https"]
    ELSE ref

\* the lengths of the prefixes of s that end in .webp, .gif or .webm, in
\* either case (re.I)
ExtEnds(s) == {k \in 1..Len(s) : \E e \in 1..Len(EXTS) : EndsWith(Lower(SubSeq(s, 1, k)), EXTS[e])}

\* the shortest of these prefixes
CutAtExt(s) == SubSeq(s, 1, CHOOSE k \in ExtEnds(s) : \A m \in ExtEnds(s) : k <= m)

\* the same for a host name: of the host names of the model only
\* i.gifer.com has such a prefix
HostCut(site) == IF site = "i.gifer.com" THEN "i.gif" ELSE site

\* does the regular expression of line 468 match at the URL u written in
\* the text: u starts with http:// or https:// and goes on to an extension
RegexHit(u) ==
    /\ u.scheme \in {"http", "https"}
    /\ HostCut(u.loc.site) # u.loc.site \/ ExtEnds(u.loc.id.v) # {} \/ ExtEnds(u.base) # {}

\* what it matches there: [^...]+? is lazy, so the match ends with the
\* first extension it gets to, in the host name, the directory or the last
\* segment (the URLs of the model have no query)
RegexMatch(u) ==
    IF HostCut(u.loc.site) # u.loc.site
    THEN Url(u.scheme, Loc(HostCut(u.loc.site), JStr(<<>>)), <<>>)
    ELSE IF ExtEnds(u.loc.id.v) # {}
    THEN Url(u.scheme, Loc(u.loc.site, JStr(<<>>)), CutAtExt(u.loc.id.v))
    ELSE Url(u.scheme, u.loc, CutAtExt(u.base))

\* re.findall(..., resp.text, re.I): the matches in the order of the text
findall(text) ==
    LET hits == SelectSeq(text, RegexHit)
    IN  [k \in 1..Len(hits) |-> RegexMatch(hits[k])]

\* html_targets(page_url); resp is NetErr when the request or
\* raise_for_status() raised, else the document: text holds the URLs
\* written in resp.text, in its order, attrs the values of the attributes
\* visited by the BeautifulSoup loop (srcset entries already split)
html_targets(parsed, req_ok, bs4, resp) ==
    IF ~req_ok THEN <<>>
    ELSE IF resp.t = "neterr" THEN <<>>
    ELSE sorted(Range(findall(resp.text)) \cup
                (IF bs4 THEN {urljoin(parsed, resp.attrs[k]) : k \in
                                {m \in 1..Len(resp.attrs) :
                                    looks_like_target(urljoin(parsed, resp.attrs[m]), "")}}
                 ELSE {}))

WebUrl(k, base) == Url("https", Loc("cdn.example", JStr(Str(k))), base)

AGif == <<"a">> \o DotGif

HtmlDoc(text, attrs) == [t |-> "html", text |-> text, attrs |-> attrs]

HtmlRefs == { WebUrl(1, AGif),
              Url("", Loc("", JStr(<<>>)), <<"b">> \o DotWebp),
              Url("//", Loc("cdn.example", JStr(<<"3">>)), AGif),
              Url("data", Loc("", JStr(<<>>)), AGif),
              Url("", Loc("", JStr(<<>>)), <<"p">>) }

\* number of attribute values in the documents explored
MaxAttrs == 1

\* the answers explored; the URLs written in the text are none, one, two
\* in descending order, one on a host whose name contains an extension, and
\* a .gifv link followed by a scheme-relative URL and the .gif it is cut to
HtmlResponses ==
    {NetErr}
        \cup {HtmlDoc(t, a) :
                t \in { <<>>,
                        <<WebUrl(2, AGif)>>,
                        <<WebUrl(2, AGif), WebUrl(1, AGif)>>,
                        <<Url("https", Loc("i.gifer.com", JStr(<<"1">>)), AGif)>>,
                        <<WebUrl(2, AGif \o <<"v">>),
                          Url("//", Loc("cdn.example", JStr(<<"3">>)), AGif),
                          WebUrl(2, AGif)>> },
                a \in SeqsUpTo(HtmlRefs, MaxAttrs)}

\* fallback_html_download(page_url, out_dir), lines 537-545, and the return
\* of main() that follows both of its calls
HtmlFallback ==
    /\ pc = "fallback"
    /\ invoked' = Append(invoked, "html")
    /\ \E resp \in HtmlResponses, bs4 \in BOOLEAN :
          LET ts == html_targets(page, requests_ok, bs4, resp)
          IN  /\ html_doc' = IF requests_ok THEN resp ELSE JNull
              /\ IF ts = <<>>
                 THEN /\ notices' = notices \cup {"No .webp or .gif links found in the page HTML"}
                      /\ pc' = "done"
                      /\ UNCHANGED <<calls, dlVars>>
                 ELSE StartDownload(ts, "html")
    /\ UNCHANGED <<page, requests_ok, out_dir, files, strat_out, last_saved,
                   captured, seen, pending, attempts, nameIn, nameOut, clock, disk, runs>>

(***************************************************************************)
(* Live capture                                                            *)
(***************************************************************************)
Event(rtype, status_ok, url, ct) ==
    [resource_type |-> rtype, ok |-> status_ok, url |-> url, ct |-> ct]

RichEvents == { Event("image", TRUE, WebUrl(1, AGif), "image/gif"),
                Event("image", TRUE, WebUrl(2, <<"b">>), "image/webp"),
                Event("script", TRUE, WebUrl(3, AGif), ""),
                Event("image", FALSE, WebUrl(4, AGif), "image/gif") }

\* the responses the browser delivers before the capture window closes
EventStreams ==
    SeqsUpTo(RichEvents, MaxEvents)
        \cup {[k \in 1..n |-> Event("image", TRUE, WebUrl(k, AGif), "image/gif")] :
                n \in {LongLen}}

\* a handler without the test of line 630
Records_NoDedupe(resp, seenUrls) ==
    /\ resp.resource_type = "image"
    /\ resp.ok
    /\ looks_like_target(resp.url, resp.ct)

\* the handler on_response(resp), lines 619-638: does it record the response
Records(resp, seenUrls) ==
    /\ resp.resource_type = "image"
    /\ resp.ok
    /\ looks_like_target(resp.url, resp.ct)
    /\ resp.url \notin seenUrls

\* a pipeline that scans the HTML before it opens the browser
WhenInstalled_ScanFirst == "fallback"

\* where main() continues when Playwright is installed: the try block at
\* line 603
WhenInstalled == "launch"

\* line 595: is Playwright installed
CheckPlaywright ==
    /\ pc = "pw_check"
    /\ \E installed \in BOOLEAN :
          IF installed
          THEN /\ pc' = WhenInstalled
               /\ UNCHANGED notices
          ELSE /\ notices' = notices \cup {"Playwright is not installed; falling back to HTML scan"}
               /\ pc' = "fallback"
    /\ UNCHANGED <<page, requests_ok, out_dir, files, strat_out, targets, net, i, j, ok, fail,
                   last_saved, captured, seen, pending, calls, invoked, attempts,
                   nameIn, nameOut, fetched, html_doc, clock, disk, runs>>

\* a try block without a handler: the exception ends main() with a traceback
RaiseInTry_Uncaught ==
    /\ notices' = notices \cup {"Browser capture failed"}
    /\ pc' = "crashed"

\* an exception inside the try block of lines 603-695 reaches the handler
\* at line 696, which prints it and calls fallback_html_download
RaiseInTry ==
    /\ notices' = notices \cup {"Browser capture failed"}
    /\ pc' = "fallback"

\* lines 600-617 and 640: start the browser and register the listener
LaunchBrowser ==
    /\ pc = "launch"
    /\ invoked' = Append(invoked, "live")
    /\ captured' = <<>>
    /\ seen' = {}
    /\ \E launched \in BOOLEAN :
          IF launched
          THEN /\ pending' \in EventStreams
               /\ pc' = "goto"
               /\ UNCHANGED notices
          ELSE /\ RaiseInTry
               /\ UNCHANGED pending
    /\ UNCHANGED <<page, requests_ok, out_dir, files, strat_out, targets, net, i, j, ok, fail,
                   last_saved, calls, attempts, nameIn, nameOut, fetched, html_doc, clock,
                   disk, runs>>

\* the browser delivers a response to on_response
OnResponse ==
    /\ pc \in {"goto", "idle", "capture"}
    /\ pending # <<>>
    /\ pending' = Tail(pending)
    /\ IF Records(Head(pending), seen)
       THEN /\ seen' = seen \cup {Head(pending).url}
            /\ captured' = Append(captured, <<Head(pending).url, Head(pending).ct>>)
       ELSE UNCHANGED <<seen, captured>>
    /\ UNCHANGED <<pc, page, requests_ok, out_dir, files, strat_out, targets, net, i, j, ok,
                   fail, last_saved, calls, invoked, notices, attempts,
                   nameIn, nameOut, fetched, html_doc, clock, disk, runs>>

\* line 643: page.goto returns or raises (a navigation failure is explored
\* after at most MaxEvents recorded responses)
Goto ==
    /\ pc = "goto"
    /\ \E loaded \in BOOLEAN :
          IF loaded THEN pc' = "idle" /\ UNCHANGED <<notices, pending>>
          ELSE (Len(captured) <= MaxEvents) /\ RaiseInTry /\ pending' = <<>>
    /\ UNCHANGED <<page, requests_ok, out_dir, files, strat_out, targets, net, i, j, ok, fail,
                   last_saved, captured, seen, calls, invoked, attempts,
                   nameIn, nameOut, fetched, html_doc, clock, disk, runs>>

\* lines 644-647: wait_for_load_state returns or times out, both go on
WaitIdle ==
    /\ pc = "idle"
    /\ pc' = "capture"
    /\ UNCHANGED <<page, requests_ok, out_dir, files, strat_out, targets, net, i, j, ok, fail,
                   last_saved, captured, seen, pending, calls, invoked, notices, attempts,
                   nameIn, nameOut, fetched, html_doc, clock, disk, runs>>

\* a capture loop without the test time.time() < t_end: it ends only when
\* the cap is reached
CaptureDone_NoWindow ==
    /\ pc = "capture"
    /\ Len(captured) >= MAX_DOWNLOADS
    /\ pending' = <<>>
    /\ pc' = "live_start"
    /\ UNCHANGED <<page, requests_ok, out_dir, files, strat_out, targets, net, i, j, ok, fail,
                   last_saved, captured, seen, calls, invoked, notices, attempts,
                   nameIn, nameOut, fetched, html_doc, clock, disk, runs>>

\* lines 650-661: the capture loop ends when the window has elapsed (the
\* responses of the window have been delivered) or the cap is reached; with
\* SCROLL_STEPS = 0 the scroll block is skipped
CaptureDone ==
    /\ pc = "capture"
    /\ pending = <<>> \/ Len(captured) >= MAX_DOWNLOADS
    /\ pending' = <<>>
    /\ pc' = "live_start"
    /\ UNCHANGED <<page, requests_ok, out_dir, files, strat_out, targets, net, i, j, ok, fail,
                   last_saved, captured, seen, calls, invoked, notices, attempts,
                   nameIn, nameOut, fetched, html_doc, clock, disk, runs>>

\* lines 663-671: cut the captured list; nothing captured closes the browser
\* and returns
LiveStart ==
    /\ pc = "live_start"
    /\ IF Capped(captured) = <<>>
       THEN /\ notices' = notices \cup {"No .webp or .gif found via network image responses"}
            /\ pc' = "close"
            /\ UNCHANGED <<calls, dlVars>>
       ELSE /\ targets' = Capped(captured)
            /\ net' \in NetModes(Len(captured))
            /\ i' = 1 /\ j' = 1 /\ ok' = 0 /\ fail' = 0
            /\ calls' = Append(calls, "live")
            /\ pc' = "live_dl"
            /\ UNCHANGED <<notices, fetched>>
    /\ UNCHANGED <<page, requests_ok, out_dir, files, strat_out, last_saved,
                   captured, seen, pending, invoked, attempts, nameIn, nameOut,
                   html_doc, clock, disk, runs>>

\* a loop body without the try/except of lines 674-692: a failed Target
\* raises into the handler at line 696
LiveTarget_Uncaught ==
    /\ pc = "live_dl"
    /\ i <= Len(targets)
    /\ \E o \in Outcomes(net) :
          LET out == o[1]
              url == targets[i][1]
              content_type == IF out.ct # "" THEN out.ct ELSE targets[i][2]
              passes == out.kind = "ok" /\ looks_like_target(url, content_type)
              r == save_bytes(files, url, content_type, i, JNull, o[2])
          IN  /\ (passes /\ o[2] = "write_fails")
                    => Cardinality(Incomplete(files)) < MaxWriteFaults
              /\ files' = IF passes THEN r.dir ELSE files
              /\ IF passes /\ r.saved
                 THEN /\ ok' = ok + 1
                      /\ last_saved' = [i |-> i, j |-> 1, path |-> r.path]
                      /\ UNCHANGED <<fail, pc, notices>>
                 ELSE /\ RaiseInTry
                      /\ UNCHANGED <<ok, fail, last_saved>>
    /\ i' = i + 1
    /\ attempts' = attempts + 1
    /\ UNCHANGED <<page, requests_ok, out_dir, strat_out, targets, net, j,
                   captured, seen, pending, calls, invoked, nameIn, nameOut, fetched,
                   html_doc, clock, disk, runs>>

\* one iteration of the loop at lines 673-692
LiveTarget ==
    /\ pc = "live_dl"
    /\ i <= Len(targets)
    /\ \E o \in Outcomes(net) :
          LET out == o[1]
              url == targets[i][1]
              content_type == IF out.ct # "" THEN out.ct ELSE targets[i][2]
              passes == out.kind = "ok" /\ looks_like_target(url, content_type)
              r == save_bytes(files, url, content_type, i, JNull, o[2])
          IN  /\ (passes /\ o[2] = "write_fails")
                    => Cardinality(Incomplete(files)) < MaxWriteFaults
              /\ files' = IF passes THEN r.dir ELSE files
              /\ IF passes /\ r.saved
                 THEN /\ ok' = ok + 1
                      /\ last_saved' = [i |-> i, j |-> 1, path |-> r.path]
                      /\ UNCHANGED fail
                 ELSE /\ fail' = fail + 1
                      /\ UNCHANGED <<ok, last_saved>>
    /\ i' = i + 1
    /\ attempts' = attempts + 1
    /\ UNCHANGED <<pc, page, requests_ok, out_dir, strat_out, targets, net, j,
                   captured, seen, pending, calls, invoked, notices, nameIn, nameOut,
                   fetched, html_doc, clock, disk, runs>>

\* line 694
LiveDone ==
    /\ pc = "live_dl"
    /\ i > Len(targets)
    /\ notices' = notices \cup {"Done"}
    /\ pc' = "close"
    /\ UNCHANGED <<page, requests_ok, out_dir, files, strat_out, targets, net, i, j, ok, fail,
                   last_saved, captured, seen, pending, calls, invoked, attempts,
                   nameIn, nameOut, fetched, html_doc, clock, disk, runs>>

\* browser.close() at line 667 or 695 and the exit of the with block: they
\* return, and main() ends, or raise into the handler at line 696
CloseBrowser ==
    /\ pc = "close"
    /\ \E closed \in BOOLEAN :
          IF closed THEN pc' = "done" /\ UNCHANGED notices ELSE RaiseInTry
    /\ UNCHANGED <<page, requests_ok, out_dir, files, strat_out, targets, net, i, j, ok, fail,
                   last_saved, captured, seen, pending, calls, invoked, attempts,
                   nameIn, nameOut, fetched, html_doc, clock, disk, runs>>

(***************************************************************************)
(* The run of main()                                                       *)
(***************************************************************************)
Init ==
    /\ pc = "input"
    /\ page \in Pages
    /\ requests_ok \in (IF page \in PagesWithoutRequests THEN BOOLEAN ELSE {TRUE})
    /\ out_dir = FALSE
    /\ files = NoFiles
    /\ strat_out = [by |-> "none", result |-> JNull]
    /\ targets = <<>>
    /\ net = "any"
    /\ i = 0 /\ j = 0 /\ ok = 0 /\ fail = 0
    /\ last_saved = NoSave
    /\ captured = <<>>
    /\ seen = {}
    /\ pending = <<>>
    /\ calls = <<>>
    /\ invoked = <<>>
    /\ notices = {}
    /\ attempts = 0
    /\ nameIn = [hint |-> JNull, base |-> <<>>, ct |-> "", index |-> 0]
    /\ nameOut = JNull
    /\ fetched = <<>>
    /\ html_doc = JNull
    /\ clock = 0 /\ disk = {} /\ runs = <<>>

Next ==
    \/ ReadInput
    \/ TryBetterTTV
    \/ TrySevenTV
    \/ TryFFZ
    \/ TryGiphy
    \/ CheckPlaywright
    \/ LaunchBrowser
    \/ OnResponse
    \/ Goto
    \/ WaitIdle
    \/ CaptureDone
    \/ LiveStart
    \/ LiveTarget
    \/ LiveDone
    \/ CloseBrowser
    \/ HtmlFallback
    \/ DownloadStep
    \/ DownloadDone

Spec == Init /\ [][Next]_vars

\* main() is one sequential thread whose calls all return or raise (every
\* request and browser wait has a timeout, time.sleep returns), and the
\* browser delivers the responses of the window: a step that can be taken
\* is taken
FairSpec == Spec /\ WF_vars(Next)

(***************************************************************************)
(* Properties of the run of main()                                         *)
(***************************************************************************)
Invoked(who) == \E k \in 1..Len(invoked) : invoked[k] = who

\* who was called, and every call of who came before every call of whom
Before(who, whom) ==
    /\ Invoked(who)
    /\ \A k, m \in 1..Len(invoked) : (invoked[k] = who /\ invoked[m] = whom) => k < m

SiteStrategies == {"bttv", "seventv", "ffz", "giphy"}

ReturnedList == strat_out.result.t = "list"

KeyWasMissing == strat_out.result.t = "key_missing"

\* C1: when a site strategy claims the page URL and returns an empty list,
\* the run is over at once: it ended with the "none found" notice right
\* after that strategy, neither the HTML scanner nor live capture was
\* called, download_requests_targets was not called, nothing was attempted
\* and no file was written.
C1_EmptyResultEndsRun ==
    (ReturnedList /\ strat_out.result.v = <<>>) =>
        /\ pc = "done"
        /\ strat_out.by \in SiteStrategies
        /\ invoked[Len(invoked)] = strat_out.by
        /\ ~Invoked("html") /\ ~Invoked("live")
        /\ calls = <<>>
        /\ targets = <<>>
        /\ attempts = 0
        /\ files = NoFiles
        /\ "none found via API" \in notices

\* a run that ended on the empty result of the Giphy strategy, which is the
\* last site strategy tried
C1_Witness ==
    /\ pc = "done"
    /\ strat_out = [by |-> "giphy", result |-> JList(<<>>)]
    /\ invoked = <<"bttv", "seventv", "ffz", "giphy">>

\* C2 as the specification states it: when Giphy claims the page URL and
\* the API key is absent, the skip notice is shown and the run stops there,
\* neither the HTML scanner nor live capture being called.
C2_KeyMissingStops ==
    KeyWasMissing =>
        /\ "GIPHY_API_KEY is not set; skipping Giphy API" \in notices
        /\ ~Invoked("html")
        /\ ~Invoked("live")

\* C2, amended: when Giphy claims the page URL and the API key is absent,
\* the skip notice is shown and the run goes on to the Playwright check: it
\* does not end before live capture or the HTML scanner has been called,
\* and the Giphy API result is never downloaded.
C2_KeyMissingContinues ==
    KeyWasMissing =>
        /\ "GIPHY_API_KEY is not set; skipping Giphy API" \in notices
        /\ pc \in {"pw_check", "launch", "fallback"} \/ Invoked("html") \/ Invoked("live")
        /\ pc = "done" => (Invoked("html") \/ Invoked("live"))
        /\ "giphy" \notin Range(calls)

\* a run on a Giphy page without API key that ended after live capture
\* saved a file
C2_Witness ==
    /\ KeyWasMissing
    /\ pc = "done"
    /\ invoked = <<"bttv", "seventv", "ffz", "giphy", "live">>
    /\ calls = <<"live">>
    /\ ok >= 1

\* C3 as the specification states it: when no site strategy claims the page
\* URL the HTML scanner runs first, and live capture is used only after the
\* scanner was tried (it was unavailable or returned nothing).
C3_HtmlBeforeLive ==
    (strat_out.by = "none" /\ Invoked("live")) => Before("html", "live")

\* C3, amended: when no site strategy claims the page URL, live capture
\* runs first if Playwright is installed; the HTML scanner runs only if
\* Playwright is not installed or live capture raised an exception, and
\* live capture is never started after the HTML scanner.
C3_LiveBeforeHtml ==
    (strat_out.by = "none" /\ Invoked("html")) =>
        \/ /\ "Playwright is not installed; falling back to HTML scan" \in notices
           /\ ~Invoked("live")
        \/ /\ "Browser capture failed" \in notices
           /\ Before("live", "html")

\* no strategy claimed the page; live capture downloaded, closing the
\* browser raised, and the HTML scanner then downloaded as well
C3_Witness ==
    /\ strat_out.by = "none"
    /\ invoked = <<"bttv", "seventv", "ffz", "giphy", "live", "html">>
    /\ calls = <<"live", "html">>
    /\ pc = "done"

\* C4: when a site strategy returns a non-empty list, that list, unchanged,
\* is the argument of the one call of download_requests_targets of the run;
\* it is the last strategy called, and neither the HTML scanner nor live
\* capture is called.
C4_StrategyListDownloaded ==
    (ReturnedList /\ strat_out.result.v # <<>>) =>
        /\ strat_out.by \in SiteStrategies
        /\ invoked[Len(invoked)] = strat_out.by
        /\ ~Invoked("html") /\ ~Invoked("live")
        /\ calls = <<strat_out.by>>
        /\ requests_ok
        /\ targets = strat_out.result.v
        /\ pc \in {"download", "done"}

\* the BetterTTV strategy returned two Targets and both were processed
C4_Witness ==
    /\ strat_out.by = "bttv"
    /\ ReturnedList
    /\ Len(strat_out.result.v) = 2
    /\ pc = "done"
    /\ ok + fail = 2
    /\ ok >= 1

\* C5: a call of download_requests_targets with more than MAX_DOWNLOADS
\* Targets processes the first MAX_DOWNLOADS of them, in order, and no run
\* attempts more than MAX_DOWNLOADS Targets.
C5_CapPerRun ==
    /\ pc = "download" => i <= Min(Len(targets), MAX_DOWNLOADS) + 1
    /\ pc = "live_dl" => (Len(targets) <= MAX_DOWNLOADS /\ i <= Len(targets) + 1)
    /\ attempts <= MAX_DOWNLOADS

\* the candidate URLs of the Target download_requests_targets is working on
CurrentUrls == UrlsOf(Capped(targets)[i])

\* C6: in download_requests_targets the candidates of a Target are tried in
\* list order: a Target counts as failed only when its last candidate has
\* failed (or it has no candidate), and when a candidate succeeds, all
\* candidates before it having failed, the Target counts as saved once and
\* a new file holds that candidate's response body.
C6_FirstWorkingCandidate ==
    [][pc = "download" =>
        /\ fail' = fail + 1 => (CurrentUrls = <<>> \/ j = Len(CurrentUrls))
        /\ j' = j + 1 => (i' = i /\ ok' = ok /\ fail' = fail)
        /\ ok' = ok + 1 =>
              /\ fail' = fail /\ i' = i + 1
              /\ last_saved' = [i |-> i, j |-> j, path |-> last_saved'.path]
              /\ last_saved'.path \notin DOMAIN files
              /\ last_saved'.path \in DOMAIN files'
              /\ files'[last_saved'.path].body = CurrentUrls[j]
              /\ files'[last_saved'.path].complete
      ]_vars

\* a Target with two candidates, the first failed and the second was saved
C6_Witness ==
    /\ pc \in {"download", "done"}
    /\ calls = <<"bttv">>
    /\ last_saved.j = 2
    /\ ok = 1 /\ fail = 0
    /\ files[last_saved.path].body = targets[last_saved.i].urls[2]
    /\ files[last_saved.path].body # targets[last_saved.i].urls[1]

\* a download loop has run to its end and nothing has been started since
LoopOver == pc \in {"done", "close", "fallback"} /\ calls # <<>>

\* C7: in both download loops every Target processed is counted exactly
\* once, as saved or as failed; a failure does not end the loop or the run:
\* when the loop is over, all of the first min(n, MAX_DOWNLOADS) Targets of
\* its list have been processed, and Saved + Failed is their number.
C7_EveryTargetCounted ==
    /\ pc \in {"download", "live_dl"} =>
          (ok + fail = i - 1 /\ i <= Len(Capped(targets)) + 1)
    /\ LoopOver => ok + fail = Min(Len(targets), MAX_DOWNLOADS)
    /\ pc = "crashed" => calls = <<>>

\* a live download loop that is over with a failed Target followed by a
\* saved one
C7_Witness ==
    /\ pc = "close"
    /\ calls = <<"live">>
    /\ Len(targets) = 2
    /\ ok = 1 /\ fail = 1
    /\ last_saved.i = 2

\* base_n + ext as unique_path spells it
Numbered(filename, n) ==
    splitext(filename)[1] \o <<"_">> \o Str(n) \o splitext(filename)[2]

\* the names unique_path was called with for the files of the directory
Asked == {files[p].asked : p \in DOMAIN files}

\* C8: when all N files of the output directory were created under the same
\* resolved filename, their names are that filename and the filename with
\* the suffixes _2 .. _N before its extension; and no step overwrites,
\* renames or removes a file that exists.
C8_NamesUnique ==
    \A b \in Asked :
        Asked = {b} =>
            DOMAIN files = {b} \cup {Numbered(b, n) : n \in 2..Cardinality(DOMAIN files)}

C8_NoOverwrite ==
    \A p \in DOMAIN files : p \in DOMAIN files' /\ files'[p] = files[p]

C8_UniqueNames == []C8_NamesUnique /\ [][C8_NoOverwrite]_vars

\* three files created under the same resolved filename
C8_Witness ==
    /\ Cardinality(DOMAIN files) = 3
    /\ Cardinality(Asked) = 1
    /\ \E b \in Asked : DOMAIN files = {b, Numbered(b, 2), Numbered(b, 3)}

\* C10: a strategy that claims the page URL returns a list, whatever the API
\* answers: no exception it raises reaches main().
C10_NoStrategyException == pc # "crashed"

BrowserFailed == "Browser capture failed" \in notices

\* the end of a run whose HTML fallback has run: its Targets, if any, went
\* through download_requests_targets, all of them up to the cap
FallbackCompleted ==
    /\ Invoked("html")
    /\ \/ "No .webp or .gif links found in the page HTML" \in notices
       \/ /\ calls[Len(calls)] = "html"
          /\ targets # <<>>
          /\ "Done" \in notices
          /\ ok + fail = Min(Len(targets), MAX_DOWNLOADS)

\* C11: a failure of the browser launch or of the navigation does not end
\* the run with an exception: it is reported, the HTML fallback is run
\* next, and the run ends after the fallback downloaded its Targets, if any.
C11_AfterBrowserFailure ==
    (BrowserFailed /\ "live" \notin Range(calls)) =>
        /\ pc \in {"fallback", "download", "done"}
        /\ pc # "fallback" => Before("live", "html")
        /\ pc = "done" => FallbackCompleted

C11_FailureIsCaught ==
    pc \in {"launch", "goto"} =>
        /\ pc' \in {"goto", "idle", "fallback"}
        /\ pc' = "fallback" <=> (BrowserFailed' /\ ~BrowserFailed)

C11_BrowserFailureFallsBack == []C11_AfterBrowserFailure /\ [][C11_FailureIsCaught]_vars

\* the navigation failed and the HTML fallback then saved a file
C11_Witness ==
    /\ BrowserFailed
    /\ captured # <<>>
    /\ calls = <<"html">>
    /\ pc = "done"
    /\ ok >= 1

\* C13: a failed write leaves no partial file behind: every file present in
\* the output directory holds a complete response body.
C13_NoPartialFiles == \A p \in DOMAIN files : files[p].complete

\* <<a, b>> comes before <<c, d>> in the order Targets and, within a Target,
\* candidates are listed in
FetchBefore(x, y) == x[1] < y[1] \/ (x[1] = y[1] /\ x[2] < y[2])

\* the fetches made so far are in list order, none of them twice, and the
\* candidate the loop is at comes after all of them
C14_InListOrder ==
    /\ \A a, b \in DOMAIN fetched : a < b => FetchBefore(fetched[a], fetched[b])
    /\ \A a \in DOMAIN fetched :
          /\ fetched[a][1] \in 1..Len(Capped(targets))
          /\ fetched[a][2] \in 1..Len(UrlsOf(Capped(targets)[fetched[a][1]]))
    /\ (pc = "download" /\ fetched # <<>>) => FetchBefore(fetched[Len(fetched)], <<i, j>>)

\* a fetch is of the candidate the loop is at, and a fetch that ends in a
\* saved file moves the loop to the next Target
C14_StopsAtSuccess ==
    (pc = "download" /\ fetched' # fetched)
        => /\ fetched' = Append(fetched, <<i, j>>)
           /\ ok' > ok => i' = i + 1 /\ j' = 1
           /\ ok' = ok => (i' = i /\ j' = j + 1) \/ (i' = i + 1 /\ j' = 1 /\ fail' = fail + 1)

\* C14: download_requests_targets fetches each candidate URL at most once and
\* strictly in list order, fetches no candidate of a Target after the first
\* one that was saved, and never fetches a failed candidate again.
C14_EachCandidateOnceInOrder == []C14_InListOrder /\ [][C14_StopsAtSuccess]_vars

\* two candidates of the first Target fetched, the first failed and the
\* second saved, and the loop gone on to the second Target
C14_Witness ==
    /\ pc = "download"
    /\ Len(fetched) >= 2
    /\ fetched[1] = <<1, 1>> /\ fetched[2] = <<1, 2>>
    /\ last_saved.i = 1 /\ last_saved.j = 2
    /\ i = 2

\* C15 as stated: the output directory is created lazily, before the first
\* write: it exists only once a file has been written or while Targets are
\* being downloaded, and a run that ends without a file has no directory.
C15_CreatedLazily ==
    /\ out_dir => (files # NoFiles \/ pc \notin {"bttv", "done"})
    /\ (pc = "done" /\ files = NoFiles) => ~out_dir

\* the directory exists exactly when a non-empty URL has been read
C15_ExistsOnceUrlRead == out_dir <=> (pc # "input" /\ page # NoPage)

\* it is created by the step that reads the URL and by no other
C15_CreatedOnInput == out_dir' # out_dir => (pc = "input" /\ out_dir')

\* C15 amended: the output directory is created once, eagerly, as soon as a
\* non-empty URL has been read and before any strategy runs; it exists from
\* then on, also in a run that writes no file.
C15_CreatedEagerly == []C15_ExistsOnceUrlRead /\ [][C15_CreatedOnInput]_vars

\* a run that ended with the directory made and no file in it
C15_Witness == pc = "done" /\ out_dir /\ files = NoFiles /\ calls # <<>>

\* the list html_targets returned, once fallback_html_download has passed it
\* to download_requests_targets
HtmlResult == IF calls # <<>> /\ calls[Len(calls)] = "html" THEN targets ELSE <<>>

\* an absolute URL whose path ends in .webp, .gif or .webm
AbsoluteWithSuffix(u) ==
    /\ u.scheme \in {"http", "https"}
    /\ \E e \in 1..Len(EXTS) : EndsWith(Lower(u.base), EXTS[e])

\* C16: every URL html_targets returns, found by the regular expression or
\* in an attribute, is an absolute URL whose path ends in an accepted
\* extension (.webp, .gif, .webm).
C16_ScannerUrlsHaveSuffix == \A k \in DOMAIN HtmlResult : AbsoluteWithSuffix(HtmlResult[k])

\* the URLs html_targets comes across, in the order it does: the matches of
\* the regular expression in the text, then the attribute values it accepts
Extracted ==
    IF html_doc = JNull \/ html_doc.t = "neterr" THEN <<>>
    ELSE findall(html_doc.text)
            \o [k \in 1..Len(html_doc.attrs) |-> urljoin(page, html_doc.attrs[k])]

\* the position a URL is first come across at
FirstSeen(u) ==
    CHOOSE k \in 1..Len(Extracted) : Extracted[k] = u /\ \A m \in 1..(k - 1) : Extracted[m] # u

\* C17 as stated: the result of html_targets holds each URL once, in the
\* order in which the URLs were first seen during extraction.
C17_FirstSeenOrder ==
    \A a, b \in DOMAIN HtmlResult :
        a < b => /\ HtmlResult[a] # HtmlResult[b]
                 /\ FirstSeen(HtmlResult[a]) < FirstSeen(HtmlResult[b])

\* C17 amended: the result of html_targets holds each extracted URL once, in
\* ascending order of the URL strings (sorted() of the set), whatever the
\* order they were seen in.
C17_AscendingOrder ==
    HtmlResult # <<>> =>
        /\ \A a, b \in DOMAIN HtmlResult : a < b => UrlLess(HtmlResult[a], HtmlResult[b])
        /\ Range(findall(html_doc.text)) \subseteq Range(HtmlResult)
        /\ Range(HtmlResult) \subseteq Range(Extracted)

\* a result of two URLs that the text has in the opposite order
C17_Witness ==
    /\ Len(HtmlResult) = 2
    /\ Len(Extracted) >= 2
    /\ Extracted[1] = HtmlResult[2]
    /\ Extracted[2] = HtmlResult[1]

\* no two captured records have the same URL, seen holds exactly their
\* URLs, and each record is of an accepted format
C19_CapturedOnce ==
    /\ \A a, b \in DOMAIN captured : a # b => captured[a][1] # captured[b][1]
    /\ seen = {captured[k][1] : k \in DOMAIN captured}
    /\ \A k \in DOMAIN captured : looks_like_target(captured[k][1], captured[k][2])

\* the list changes only by the record of the response being delivered, put
\* at its end, and only for a successful image response of an accepted
\* format whose URL is not in the list yet
C19_AppendsFirstObserved ==
    captured' # captured =>
        /\ pending # <<>>
        /\ LET resp == Head(pending)
           IN  /\ captured' = Append(captured, <<resp.url, resp.ct>>)
               /\ resp.resource_type = "image"
               /\ resp.ok
               /\ looks_like_target(resp.url, resp.ct)
               /\ \A k \in DOMAIN captured : captured[k][1] # resp.url

\* C19: after any sequence of response events of a capture session the
\* captured list has no two records with the same URL, holds only records of
\* successful image responses of an accepted format, and is in the order in
\* which the URLs were first observed.
C19_CapturedListInvariant == []C19_CapturedOnce /\ [][C19_AppendsFirstObserved]_vars

\* a response for a URL that has been captured already is about to be
\* delivered
C19_Witness ==
    /\ pc \in {"goto", "idle", "capture"}
    /\ captured # <<>>
    /\ pending # <<>>
    /\ Head(pending).url \in seen
    /\ Head(pending).resource_type = "image" /\ Head(pending).ok

\* C20: every Target in the list a site strategy (BetterTTV, 7TV,
\* FrankerFaceZ, Giphy) returns has at least one candidate URL, whatever the
\* API answered: an item that yields no URL gets no Target.
C20_TargetsHaveCandidates ==
    (strat_out.by \in SiteStrategies /\ ReturnedList) =>
        \A k \in DOMAIN strat_out.result.v :
            /\ IsDictTarget(strat_out.result.v[k])
            /\ strat_out.result.v[k].urls # <<>>

\* the FrankerFaceZ strategy returned a list with a Target in it
C20_Witness ==
    /\ strat_out.by = "ffz"
    /\ ReturnedList
    /\ strat_out.result.v # <<>>
    /\ strat_out.result.v[1].urls # <<>>

\* main() has returned or ended with an exception
Terminated == pc \in {"done", "crashed"}

\* the loops stay within their lists: the download loops are at a Target of
\* the capped list or just past its end, the candidate loop at a candidate of
\* that Target, and no more Targets have been attempted than two loops take
C21_LoopsBounded ==
    /\ pc = "download" =>
          /\ i \in 1..(Len(Capped(targets)) + 1)
          /\ i <= Len(Capped(targets)) =>
                j \in 1..Max(1, Len(UrlsOf(Capped(targets)[i])))
    /\ pc = "live_dl" => i \in 1..(Len(targets) + 1) /\ Len(targets) <= MAX_DOWNLOADS
    /\ attempts <= 2 * MAX_DOWNLOADS

\* C21: every run terminates: the capture loop ends once the window has
\* elapsed or MAX_DOWNLOADS records are captured, the scroll loop makes at
\* most SCROLL_STEPS iterations, and the download loops go through finitely
\* many Targets and candidates.
C21_EveryRunTerminates == <>Terminated /\ []C21_LoopsBounded

\* a run that captured MAX_DOWNLOADS records, downloaded them and returned
C21_Witness ==
    /\ pc = "done"
    /\ Len(captured) >= MAX_DOWNLOADS
    /\ calls # <<>> /\ calls[1] = "live"
    /\ attempts >= MAX_DOWNLOADS

\* C22: in one run the download phase is run for at most one Target list:
\* once the live-capture download loop has started, the download of the HTML
\* scan is never run as well, also when an error is raised after the
\* downloads (closing the browser, leaving its context).
C22_OneDownloadPhase ==
    ~ \E a, b \in DOMAIN calls :
          /\ a < b
          /\ calls[a] = "live"
          /\ calls[b] = "html"
          /\ pc = "download"

(***************************************************************************)
(* The filename resolver on its own: save_bytes names one file from a name *)
(* hint or, without a hint, from the basename of the URL                   *)
(***************************************************************************)
NameChars == {"a", ".", "SP", "/", "BSLASH", "TAB", "SOH", "%", "0", "1", "2", "F"}

NameInputs(n) ==
    {[hint |-> JStr(h), base |-> <<"x">> \o DotGif, ct |-> c, index |-> 1] :
        h \in SeqsUpTo(NameChars, n), c \in {"", "image/webp"}}
    \cup {[hint |-> JNull, base |-> b, ct |-> c, index |-> 1] :
        b \in SeqsUpTo(NameChars \ {"/", "TAB"}, n), c \in {"", "image/webp"}}
    \cup {[hint |-> JNum(7), base |-> <<"x">> \o DotGif, ct |-> "", index |-> 1]}

InitName ==
    /\ pc = "name"
    /\ page = NoPage
    /\ requests_ok = TRUE
    /\ out_dir = FALSE
    /\ files = NoFiles
    /\ strat_out = [by |-> "none", result |-> JNull]
    /\ targets = <<>>
    /\ net = "any"
    /\ i = 0 /\ j = 0 /\ ok = 0 /\ fail = 0
    /\ last_saved = NoSave
    /\ captured = <<>>
    /\ seen = {}
    /\ pending = <<>>
    /\ calls = <<>>
    /\ invoked = <<>>
    /\ notices = {}
    /\ attempts = 0
    /\ nameIn \in NameInputs(MaxNameLen)
    /\ nameOut = JNull
    /\ fetched = <<>>
    /\ html_doc = JNull
    /\ clock = 0 /\ disk = {} /\ runs = <<>>

\* lines 125-128 of save_bytes on the arguments nameIn
ResolveName ==
    /\ pc = "name"
    /\ nameOut' = SaveName(Url("https", Loc("cdn.example", JStr(<<"1">>)), nameIn.base),
                           nameIn.ct, nameIn.index, nameIn.hint)
    /\ pc' = "named"
    /\ UNCHANGED <<page, requests_ok, out_dir, files, strat_out, targets, net, i, j, ok, fail,
                   last_saved, captured, seen, pending, calls, invoked, notices, attempts,
                   nameIn, fetched, html_doc, clock, disk, runs>>

NextName == ResolveName

SpecName == InitName /\ [][NextName]_vars

\* the text the name of the file is made from
RawName == IF nameIn.hint.t = "str" /\ nameIn.hint.v # <<>> THEN nameIn.hint.v ELSE nameIn.base

\* C9: for a name hint or URL basename that contains path separators or
\* control characters, the filename save_bytes resolves is not empty and
\* contains neither.
C9_NoSeparatorsOrControls ==
    (pc = "named" /\ Range(RawName) \cap (PathSeps \cup ControlChars) # {}) =>
        /\ nameOut.t = "str"
        /\ nameOut.v # <<>>
        /\ Range(nameOut.v) \cap (PathSeps \cup ControlChars) = {}

\* the name after unquoting, stripping and replacing, before safe_filename
\* substitutes anything for an empty one
Sanitized(raw) == ReSub(Strip(Strip(unquote(raw), Whitespace), {"."}), ReClass, FALSE)

\* C18: when sanitizing the name hint or URL basename yields the empty
\* string, the file is named image_<index> followed by the resolved
\* extension.
C18_EmptyNameIsImageIndex ==
    (pc = "named" /\ nameOut.t = "str" /\ Sanitized(RawName) = <<>>) =>
        nameOut.v = <<"i", "m", "a", "g", "e", "_">> \o Str(nameIn.index)
                        \o ext_from_type_or_url(Url("https", Loc("cdn.example", JStr(<<"1">>)),
                                                    nameIn.base), nameIn.ct)

(***************************************************************************)
(* The output directories of successive runs of the program                *)
(***************************************************************************)
\* number of runs of the program explored
MaxRuns == 3

\* seconds the clock advances while they run
MaxClock == 2

\* mk_out_dir(page_url) at time now: the directory downloads_<host>_<ts> of
\* the working directory, ts being time.strftime("%Y%m%d-%H%M%S"), which is
\* one-to-one on whole seconds
mk_out_dir(netloc, now) ==
    LET n == IF netloc # <<>> THEN netloc ELSE <<"s", "i", "t", "e">>
    IN  [host |-> [k \in 1..Len(n) |-> IF n[k] = ":" THEN "_" ELSE n[k]], ts |-> now]

InitDirs ==
    /\ pc = "dirs"
    /\ page = NoPage
    /\ requests_ok = TRUE
    /\ out_dir = FALSE
    /\ files = NoFiles
    /\ strat_out = [by |-> "none", result |-> JNull]
    /\ targets = <<>>
    /\ net = "any"
    /\ i = 0 /\ j = 0 /\ ok = 0 /\ fail = 0
    /\ last_saved = NoSave
    /\ captured = <<>>
    /\ seen = {}
    /\ pending = <<>>
    /\ calls = <<>>
    /\ invoked = <<>>
    /\ notices = {}
    /\ attempts = 0
    /\ nameIn = [hint |-> JNull, base |-> <<>>, ct |-> "", index |-> 0]
    /\ nameOut = JNull
    /\ fetched = <<>>
    /\ html_doc = JNull
    /\ clock = 0 /\ disk = {} /\ runs = <<>>

\* a run of the program gets to line 554, for a page URL without a host,
\* on host h, on h:8 or on h_8: os.makedirs(out, exist_ok=True) creates the
\* directory or finds it
StartRun ==
    /\ Len(runs) < MaxRuns
    /\ \E netloc \in {<<>>, <<"h">>, <<"h", ":", "8">>, <<"h", "_", "8">>} :
          LET out == mk_out_dir(netloc, clock)
          IN  /\ disk' = disk \cup {out}
              /\ runs' = Append(runs, [dir |-> out, created |-> out \notin disk])
    /\ UNCHANGED <<pc, page, requests_ok, out_dir, files, strat_out, targets, net, i, j, ok,
                   fail, last_saved, captured, seen, pending, calls, invoked, notices,
                   attempts, nameIn, nameOut, fetched, html_doc, clock>>

\* a second goes by
Tick ==
    /\ clock < MaxClock
    /\ clock' = clock + 1
    /\ UNCHANGED <<pc, page, requests_ok, out_dir, files, strat_out, targets, net, i, j, ok,
                   fail, last_saved, captured, seen, pending, calls, invoked, notices,
                   attempts, nameIn, nameOut, fetched, html_doc, disk, runs>>

NextDirs == StartRun \/ Tick

SpecDirs == InitDirs /\ [][NextDirs]_vars

\* C12: any two runs of the program get different output directories, and
\* each run's directory is created by that run.
C12_DirectoriesNeverReused ==
    /\ \A a, b \in 1..Len(runs) : a # b => runs[a].dir # runs[b].dir
    /\ \A a \in 1..Len(runs) : runs[a].created

====
